---------------------------- MODULE Spec2Model ----------------------------
(***************************************************************************)
(* LinkedBST (linkedbst.py): a link-based binary search tree.              *)
(*                                                                         *)
(* A tree is a value: Nil for an absent node, <<data, left, right>> for a  *)
(* BSTNode.  The code never shares a node between two parents, so a node   *)
(* is identified by its path from the root ("L"/"R" steps) and the test    *)
(* `parent == top` of lift is equality of paths.                           *)
(***************************************************************************)
EXTENDS Integers, Sequences, FiniteSets

VARIABLES root, size, hist, pristine, iter

vars == <<root, size, hist, pristine, iter>>

(* ------------------------------ bounds -------------------------------- *)
\* items are 1..NumItems; add is called while size < MaxSize (size < MaxSizeAll
\* where replace, rebalance and clear are called as well, size < ChainLen
\* where the items are added in ascending order)
NumItems == 3
MaxSize == 4
MaxSizeAll == 3
ChainLen == 7

Items == 1..NumItems
ChainItems == 1..ChainLen

(* ------------------------------ nodes --------------------------------- *)
None == 0
Nil == <<>>

BSTNode(d) == <<d, Nil, Nil>>

Data(t) == t[1]
Left(t) == t[2]
Right(t) == t[3]

RECURSIVE Sub(_, _)
Sub(t, p) ==
    IF p = <<>> THEN t
    ELSE Sub(IF Head(p) = "L" THEN Left(t) ELSE Right(t), Tail(p))

RECURSIVE SetAt(_, _, _)
SetAt(t, p, s) ==
    IF p = <<>> THEN s
    ELSE IF Head(p) = "L"
         THEN <<Data(t), SetAt(Left(t), Tail(p), s), Right(t)>>
         ELSE <<Data(t), Left(t), SetAt(Right(t), Tail(p), s)>>

SetData(t, p, d) == SetAt(t, p, <<d, Left(Sub(t, p)), Right(Sub(t, p))>>)

Front(p) == SubSeq(p, 1, Len(p) - 1)

(* --------------------------- the collection --------------------------- *)
isEmpty(s) == s = 0

RECURSIVE inorder_right_first(_)
inorder_right_first(t) ==
    IF t = Nil THEN <<>>
    ELSE inorder_right_first(Right(t)) \o <<Data(t)>> \o inorder_right_first(Left(t))

RECURSIVE inorder(_)
inorder(t) ==
    IF t = Nil THEN <<>>
    ELSE inorder(Left(t)) \o <<Data(t)>> \o inorder(Right(t))

RECURSIVE find_swapped(_, _)
find_swapped(t, item) ==
    IF t = Nil THEN None
    ELSE IF item = Data(t) THEN Data(t)
    ELSE IF item < Data(t) THEN find_swapped(Right(t), item)
    ELSE find_swapped(Left(t), item)

RECURSIVE find(_, _)
find(t, item) ==
    IF t = Nil THEN None
    ELSE IF item = Data(t) THEN Data(t)
    ELSE IF item < Data(t) THEN find(Left(t), item)
    ELSE find(Right(t), item)

contains(t, item) == find(t, item) # None

clear(r, s) == [root |-> Nil, size |-> 0, res |-> None, err |-> ""]

RECURSIVE add_recurse_equal_left(_, _)
add_recurse_equal_left(node, item) ==
    IF item <= Data(node)
    THEN IF Left(node) = Nil
         THEN <<Data(node), BSTNode(item), Right(node)>>
         ELSE <<Data(node), add_recurse_equal_left(Left(node), item), Right(node)>>
    ELSE IF Right(node) = Nil
         THEN <<Data(node), Left(node), BSTNode(item)>>
         ELSE <<Data(node), Left(node), add_recurse_equal_left(Right(node), item)>>

RECURSIVE add_recurse(_, _)
add_recurse(node, item) ==
    IF item < Data(node)
    THEN IF Left(node) = Nil
         THEN <<Data(node), BSTNode(item), Right(node)>>
         ELSE <<Data(node), add_recurse(Left(node), item), Right(node)>>
    ELSE IF Right(node) = Nil
         THEN <<Data(node), Left(node), BSTNode(item)>>
         ELSE <<Data(node), Left(node), add_recurse(Right(node), item)>>

add_reject_duplicate(r, s, item) ==
    IF contains(r, item)
    THEN [root |-> r, size |-> s, res |-> None, err |-> ""]
    ELSE [root |-> IF isEmpty(s) THEN BSTNode(item) ELSE add_recurse(r, item),
          size |-> s + 1, res |-> None, err |-> ""]

add(r, s, item) ==
    [root |-> IF isEmpty(s) THEN BSTNode(item) ELSE add_recurse(r, item),
     size |-> s + 1, res |-> None, err |-> ""]

RECURSIVE lift_walk(_, _, _)
lift_walk(t, parent, current_node) ==
    IF Right(Sub(t, current_node)) # Nil
    THEN lift_walk(t, current_node, Append(current_node, "R"))
    ELSE [parent |-> parent, current_node |-> current_node]

lift_always_left(t, top) ==
    LET w == lift_walk(t, top, Append(top, "L"))
        cur == Sub(t, w.current_node)
        t1 == SetData(t, top, Data(cur))
    IN SetAt(t1, Append(top, "L"), Left(cur))

lift(t, top) ==
    LET w == lift_walk(t, top, Append(top, "L"))
        cur == Sub(t, w.current_node)
        t1 == SetData(t, top, Data(cur))
    IN IF w.parent = top
       THEN SetAt(t1, Append(top, "L"), Left(cur))
       ELSE SetAt(t1, Append(w.parent, "R"), Left(cur))

RECURSIVE remove_locate(_, _, _)
remove_locate(t, path, item) ==
    LET current_node == Sub(t, path)
    IN IF current_node = Nil THEN [found |-> FALSE, path |-> path]
       ELSE IF Data(current_node) = item THEN [found |-> TRUE, path |-> path]
       ELSE IF Data(current_node) > item
            THEN remove_locate(t, Append(path, "L"), item)
            ELSE remove_locate(t, Append(path, "R"), item)

\* the three cases of remove; path leads from pre_root to current_node, its
\* last step is `direction` and the steps before it lead to `parent`
remove_relink_left(pre_root, path) ==
    LET current_node == Sub(pre_root, path)
    IN IF Left(current_node) # Nil /\ Right(current_node) # Nil
       THEN lift(pre_root, path)
       ELSE SetAt(pre_root, Append(Front(path), "L"),
                  IF Left(current_node) = Nil
                  THEN Right(current_node)
                  ELSE Left(current_node))

remove_relink(pre_root, path) ==
    LET current_node == Sub(pre_root, path)
    IN IF Left(current_node) # Nil /\ Right(current_node) # Nil
       THEN lift(pre_root, path)
       ELSE SetAt(pre_root, path,
                  IF Left(current_node) = Nil
                  THEN Right(current_node)
                  ELSE Left(current_node))

remove_main(r, s, item) ==
    IF isEmpty(s)
    THEN [root |-> r, size |-> s, res |-> None, err |-> ""]
    ELSE
      LET pre_root == <<None, r, Nil>>
          loc == remove_locate(pre_root, <<"L">>, item)
      IN IF ~loc.found
         THEN [root |-> r, size |-> s, res |-> None, err |-> ""]
         ELSE [root |-> IF isEmpty(s - 1) THEN Nil
                        ELSE Left(remove_relink(pre_root, loc.path)),
               size |-> s - 1, res |-> Data(Sub(pre_root, loc.path)),
               err |-> ""]

remove_unchecked(r, s, item) == remove_main(r, s, item)

remove(r, s, item) ==
    IF ~contains(r, item)
    THEN [root |-> r, size |-> s, res |-> None, err |-> "KeyError"]
    ELSE remove_main(r, s, item)

RECURSIVE replace_probe(_, _, _)
replace_probe(t, path, item) ==
    LET probe == Sub(t, path)
    IN IF probe = Nil THEN [found |-> FALSE, path |-> path]
       ELSE IF Data(probe) = item THEN [found |-> TRUE, path |-> path]
       ELSE IF Data(probe) > item
            THEN replace_probe(t, Append(path, "L"), item)
            ELSE replace_probe(t, Append(path, "R"), item)

replace_probe_new(r, s, item, new_item) ==
    LET loc == replace_probe(r, <<>>, new_item)
    IN IF loc.found
       THEN [root |-> SetData(r, loc.path, new_item), size |-> s,
             res |-> Data(Sub(r, loc.path)), err |-> ""]
       ELSE [root |-> r, size |-> s, res |-> None, err |-> ""]

replace(r, s, item, new_item) ==
    LET loc == replace_probe(r, <<>>, item)
    IN IF loc.found
       THEN [root |-> SetData(r, loc.path, new_item), size |-> s,
             res |-> Data(Sub(r, loc.path)), err |-> ""]
       ELSE [root |-> r, size |-> s, res |-> None, err |-> ""]

(* ------------------------ height and children ------------------------- *)
children(position) ==
    IF position = Nil THEN <<>>
    ELSE (IF Left(position) # Nil THEN <<Left(position)>> ELSE <<>>)
         \o (IF Right(position) # Nil THEN <<Right(position)>> ELSE <<>>)

num_children(position) ==
    IF position = Nil THEN 0
    ELSE 2 - (IF Left(position) = Nil THEN 1 ELSE 0)
           - (IF Right(position) = Nil THEN 1 ELSE 0)

is_leaf(position) == num_children(position) = 0

Max(S) == CHOOSE m \in S : \A k \in S : k <= m

RECURSIVE height1(_)
height1(position) ==
    IF is_leaf(position) THEN 0
    ELSE 1 + Max({height1(children(position)[i]) :
                    i \in 1..Len(children(position))})

height(r) == height1(r)

(* ----------------------------- rebalance ------------------------------ *)
RECURSIVE subtree_inorder(_)
subtree_inorder(position) ==
    (IF Left(position) # Nil THEN subtree_inorder(Left(position)) ELSE <<>>)
    \o <<position>>
    \o (IF Right(position) # Nil THEN subtree_inorder(Right(position)) ELSE <<>>)

RECURSIVE InsertSorted(_, _)
InsertSorted(s, x) ==
    IF s = <<>> THEN <<x>>
    ELSE IF x < Head(s) THEN <<x>> \o s
    ELSE <<Head(s)>> \o InsertSorted(Tail(s), x)

RECURSIVE sorted(_)
sorted(s) ==
    IF s = <<>> THEN <<>>
    ELSE InsertSorted(sorted(SubSeq(s, 1, Len(s) - 1)), s[Len(s)])

\* list.pop(i), i counted from 0: the element and the list without it
PopItem(items, i) == items[i + 1]
PopRest(items, i) == SubSeq(items, 1, i) \o SubSeq(items, i + 2, Len(items))

\* the for loop of rebalance over `nodes`, from its i-th element on.  After
\* the first pass `nodes` and `new_nodes` are one list object (aliased), so
\* the loop also visits the nodes it appends.
RECURSIVE rebalance_for_left_only(_, _, _, _, _, _, _)
rebalance_for_left_only(t, items, lenght, nodes, new_nodes, aliased, i) ==
    LET cur == IF aliased THEN new_nodes ELSE nodes
        stop == [t |-> t, items |-> items, lenght |-> lenght,
                 new_nodes |-> new_nodes]
    IN IF i > Len(cur) \/ lenght = 0 THEN stop
       ELSE
         LET node == cur[i]
             t1 == SetAt(t, Append(node, "L"),
                         BSTNode(PopItem(items, lenght \div 2)))
             items1 == PopRest(items, lenght \div 2)
             lenght1 == lenght - 1
         IN IF lenght1 = 0
            THEN [t |-> t1, items |-> items1, lenght |-> lenght1,
                  new_nodes |-> new_nodes]
            ELSE
              LET t2 == SetAt(t1, Append(node, "R"),
                              BSTNode(PopItem(items1, lenght1 \div 2)))
                  items2 == PopRest(items1, lenght1 \div 2)
                  lenght2 == lenght1 - 1
              IN rebalance_for_left_only(t2, items2, lenght2, nodes,
                               new_nodes \o <<Append(node, "L")>>,
                               aliased, i + 1)

RECURSIVE rebalance_for(_, _, _, _, _, _, _)
rebalance_for(t, items, lenght, nodes, new_nodes, aliased, i) ==
    LET cur == IF aliased THEN new_nodes ELSE nodes
        stop == [t |-> t, items |-> items, lenght |-> lenght,
                 new_nodes |-> new_nodes]
    IN IF i > Len(cur) \/ lenght = 0 THEN stop
       ELSE
         LET node == cur[i]
             t1 == SetAt(t, Append(node, "L"),
                         BSTNode(PopItem(items, lenght \div 2)))
             items1 == PopRest(items, lenght \div 2)
             lenght1 == lenght - 1
         IN IF lenght1 = 0
            THEN [t |-> t1, items |-> items1, lenght |-> lenght1,
                  new_nodes |-> new_nodes]
            ELSE
              LET t2 == SetAt(t1, Append(node, "R"),
                              BSTNode(PopItem(items1, lenght1 \div 2)))
                  items2 == PopRest(items1, lenght1 \div 2)
                  lenght2 == lenght1 - 1
              IN rebalance_for(t2, items2, lenght2, nodes,
                               new_nodes \o <<Append(node, "L"), Append(node, "R")>>,
                               aliased, i + 1)

RECURSIVE rebalance_while(_, _, _, _, _, _)
rebalance_while(t, items, lenght, nodes, new_nodes, aliased) ==
    IF lenght > 0
    THEN LET f == rebalance_for(t, items, lenght, nodes, new_nodes, aliased, 1)
         IN rebalance_while(f.t, f.items, f.lenght, f.new_nodes, f.new_nodes, TRUE)
    ELSE t

rebalance(r, s) ==
    IF r = Nil
    THEN [root |-> r, size |-> s, res |-> None, err |-> "AttributeError"]
    ELSE
      LET positions == subtree_inorder(r)
          items == sorted([i \in 1..Len(positions) |-> Data(positions[i])])
          lenght == Len(items) - 1
          top == BSTNode(PopItem(items, lenght \div 2))
      IN [root |-> rebalance_while(top, PopRest(items, lenght \div 2), lenght,
                                   <<<<>>>>, <<>>, FALSE),
          size |-> clear(r, s).size, res |-> None, err |-> ""]

(* ----------------------------- iteration ----------------------------- *)
\* LinkedStack: a stack of nodes, last in first out
stack_push(stack, node) == Append(stack, node)
stack_top(stack) == stack[Len(stack)]
stack_pop(stack) == SubSeq(stack, 1, Len(stack) - 1)

\* The generator of __iter__ between two calls of next().  pc is "none" (no
\* traversal), "start" (created, not yet run), "yield" (suspended at the yield
\* with `node`) or "done" (exhausted); out lists the nodes yielded so far.
NoIter == [pc |-> "none", stack |-> <<>>, node |-> <<>>, out |-> <<>>]

\* the test of the while loop and, when it passes, the pop and the yield
iter_loop(stack, out) ==
    IF stack = <<>>
    THEN [pc |-> "done", stack |-> stack, node |-> <<>>, out |-> out]
    ELSE [pc |-> "yield", stack |-> stack_pop(stack), node |-> stack_top(stack),
          out |-> Append(out, stack_top(stack))]

iter_next_left_first(r, s, it) ==
    IF it.pc = "start"
    THEN IF isEmpty(s) THEN iter_loop(<<>>, <<>>)
         ELSE iter_loop(stack_push(<<>>, <<>>), <<>>)
    ELSE LET node == Sub(r, it.node)
             s1 == IF Left(node) # Nil
                   THEN stack_push(it.stack, Append(it.node, "L")) ELSE it.stack
             s2 == IF Right(node) # Nil
                   THEN stack_push(s1, Append(it.node, "R")) ELSE s1
         IN iter_loop(s2, it.out)

\* one call of next(): from the start up to the first yield, or from a yield
\* up to the next one, or to the end
iter_next(r, s, it) ==
    IF it.pc = "start"
    THEN IF isEmpty(s) THEN iter_loop(<<>>, <<>>)
         ELSE iter_loop(stack_push(<<>>, <<>>), <<>>)
    ELSE LET node == Sub(r, it.node)
             s1 == IF Right(node) # Nil
                   THEN stack_push(it.stack, Append(it.node, "R")) ELSE it.stack
             s2 == IF Left(node) # Nil
                   THEN stack_push(s1, Append(it.node, "L")) ELSE s1
         IN iter_loop(s2, it.out)

InFlight == iter.pc \in {"start", "yield"}

(* --------------------- successor and predecessor --------------------- *)
\* the for loop of successor over the inorder sequence s; acc is `successor`
RECURSIVE successor_first(_, _, _)
successor_first(s, item, acc) ==
    IF s = <<>> THEN acc
    ELSE LET node_item == Head(s)
         IN successor_first(Tail(s), item,
                            IF node_item > item /\ acc = None
                            THEN node_item ELSE acc)

RECURSIVE successor_scan(_, _, _)
successor_scan(s, item, acc) ==
    IF s = <<>> THEN acc
    ELSE LET node_item == Head(s)
             a1 == IF node_item > item /\ acc = None THEN node_item ELSE acc
             a2 == IF node_item > item /\ node_item < a1 THEN node_item ELSE a1
         IN successor_scan(Tail(s), item, a2)

successor(r, item) == successor_scan(inorder(r), item, None)

\* the for loop of predecessor over the inorder sequence s
RECURSIVE predecessor_scan(_, _, _)
predecessor_scan(s, item, acc) ==
    IF s = <<>> THEN acc
    ELSE LET node_item == Head(s)
             a1 == IF node_item < item /\ acc = None THEN node_item ELSE acc
             a2 == IF node_item < item /\ node_item > a1 THEN node_item ELSE a1
         IN predecessor_scan(Tail(s), item, a2)

predecessor(r, item) == predecessor_scan(inorder(r), item, None)

(* ------------------------- the call history --------------------------- *)
\* hist is the record of the most recent calls: always the last call, and the
\* calls before it as far as they are, together with it, the beginning of
\* add(x) add(x) remove(x) remove(x) or of add(x) remove(x) for one item x,
\* or are rebalance() add(x).
\* Each entry keeps the call, its outcome and the state the call started
\* from.  pristine tells that every call so far was add or remove.
Call(op, item, new, o) ==
    [op |-> op, item |-> item, new |-> new, res |-> o.res, err |-> o.err,
     root |-> root, size |-> size, pristine |-> pristine]

Runs == {<<"add">>, <<"add", "add">>, <<"add", "remove">>,
         <<"add", "add", "remove">>, <<"add", "add", "remove", "remove">>,
         <<"rebalance", "add">>}

IsRun(h) ==
    /\ [i \in 1..Len(h) |-> h[i].op] \in Runs
    /\ \A i, j \in 1..Len(h) :
          (h[i].op # "rebalance" /\ h[j].op # "rebalance") => h[i].item = h[j].item

Suffix(h, n) == SubSeq(h, Len(h) - n + 1, Len(h))

Window(h) ==
    LET ok == {n \in 1..Len(h) : n = 1 \/ IsRun(Suffix(h, n))}
        n == CHOOSE m \in ok : \A k \in ok : k <= m
    IN Suffix(h, n)

Record(op, item, new, o) == Window(Append(hist, Call(op, item, new, o)))

Last == hist[Len(hist)]

(* ------------------------------ actions ------------------------------- *)
Init == root = Nil /\ size = 0 /\ hist = <<>> /\ pristine = TRUE /\ iter = NoIter

Add(item, cap) ==
    /\ size < cap
    /\ ~InFlight
    /\ iter' = NoIter
    /\ root' = add(root, size, item).root
    /\ size' = add(root, size, item).size
    /\ hist' = Record("add", item, None, add(root, size, item))
    /\ pristine' = pristine

\* add(item) with an item above everything stored: the tree grows as a chain
\* to the right.  rebalance sorts the items it collects before it rebuilds,
\* so the shape it builds depends on the number of items only, and these
\* calls reach every set of up to ChainLen distinct items.
AddAscending(item) ==
    /\ \A i \in 1..Len(inorder(root)) : inorder(root)[i] < item
    /\ Add(item, ChainLen)

Remove(item) ==
    /\ ~InFlight
    /\ iter' = NoIter
    /\ root' = remove(root, size, item).root
    /\ size' = remove(root, size, item).size
    /\ hist' = Record("remove", item, None, remove(root, size, item))
    /\ pristine' = pristine

Replace(item, new_item) ==
    /\ ~InFlight
    /\ iter' = NoIter
    /\ root' = replace(root, size, item, new_item).root
    /\ size' = replace(root, size, item, new_item).size
    /\ hist' = Record("replace", item, new_item, replace(root, size, item, new_item))
    /\ pristine' = FALSE

Rebalance ==
    /\ ~InFlight
    /\ iter' = NoIter
    /\ root' = rebalance(root, size).root
    /\ size' = rebalance(root, size).size
    /\ hist' = Record("rebalance", None, None, rebalance(root, size))
    /\ pristine' = FALSE

Clear ==
    /\ ~InFlight
    /\ iter' = NoIter
    /\ root' = clear(root, size).root
    /\ size' = clear(root, size).size
    /\ hist' = Record("clear", None, None, clear(root, size))
    /\ pristine' = FALSE

\* find(item) and `item in self`: the state stays, the outcome is recorded
Find(item) ==
    /\ ~InFlight
    /\ iter' = NoIter
    /\ hist' = Record("find", item, None, [res |-> find(root, item), err |-> ""])
    /\ UNCHANGED <<root, size, pristine>>

Successor(item) ==
    /\ ~InFlight
    /\ iter' = NoIter
    /\ hist' = Record("successor", item, None,
                      [res |-> successor(root, item), err |-> ""])
    /\ UNCHANGED <<root, size, pristine>>

Predecessor(item) ==
    /\ ~InFlight
    /\ iter' = NoIter
    /\ hist' = Record("predecessor", item, None,
                      [res |-> predecessor(root, item), err |-> ""])
    /\ UNCHANGED <<root, size, pristine>>

\* iter(self): a new traversal; the calls that change the tree wait until the
\* traversal in flight is exhausted
IterStart ==
    /\ ~InFlight
    /\ iter' = [NoIter EXCEPT !.pc = "start"]
    /\ UNCHANGED <<root, size, hist, pristine>>

IterNext ==
    /\ InFlight
    /\ iter' = iter_next(root, size, iter)
    /\ UNCHANGED <<root, size, hist, pristine>>

NextAR == \/ \E item \in Items : Add(item, MaxSize)
          \/ \E item \in Items : Remove(item)

SpecAR == Init /\ [][NextAR]_vars

NextARC == \/ \E item \in Items : Add(item, MaxSize)
           \/ \E item \in Items : Remove(item)
           \/ Clear

NextARF == \/ \E item \in Items : Add(item, MaxSize)
           \/ \E item \in Items : Remove(item)
           \/ \E item \in Items : Find(item)

SpecARF == Init /\ [][NextARF]_vars

NextIter == \/ \E item \in Items : Add(item, MaxSize)
            \/ \E item \in Items : Remove(item)
            \/ IterStart
            \/ IterNext

\* the consumer of the traversal keeps calling next() until it is exhausted
SpecIter == Init /\ [][NextIter]_vars /\ WF_vars(IterNext)

SpecARC == Init /\ [][NextARC]_vars

NextARB == \/ \E item \in Items : Add(item, MaxSize)
           \/ \E item \in Items : Remove(item)
           \/ Rebalance

SpecARB == Init /\ [][NextARB]_vars

NextChain == \/ \E item \in ChainItems : AddAscending(item)
             \/ \E item \in ChainItems : Remove(item)
             \/ Rebalance

SpecChain == Init /\ [][NextChain]_vars

Next == \/ \E item \in Items : Add(item, MaxSizeAll)
        \/ \E item \in Items : Remove(item)
        \/ \E item \in Items : \E new_item \in Items : Replace(item, new_item)
        \/ Rebalance
        \/ Clear

Spec == Init /\ [][Next]_vars

NextQuery == \/ \E item \in Items : Add(item, MaxSizeAll)
             \/ \E item \in Items : Remove(item)
             \/ \E item \in Items : \E new_item \in Items : Replace(item, new_item)
             \/ Rebalance
             \/ \E item \in Items : Successor(item)
             \/ \E item \in Items : Predecessor(item)

SpecQuery == Init /\ [][NextQuery]_vars

(* ----------------------- vocabulary of the claims --------------------- *)
Universe == Items \cup ChainItems

RECURSIVE Count(_, _)
Count(t, x) ==
    IF t = Nil THEN 0
    ELSE (IF Data(t) = x THEN 1 ELSE 0) + Count(Left(t), x) + Count(Right(t), x)

RECURSIVE NodeCount(_)
NodeCount(t) == IF t = Nil THEN 0 ELSE 1 + NodeCount(Left(t)) + NodeCount(Right(t))

SameItems(t, u) == \A x \in Universe : Count(t, x) = Count(u, x)

Occurrences(s, x) == Cardinality({i \in 1..Len(s) : s[i] = x})

NonDecreasing(s) == \A i \in 1..(Len(s) - 1) : s[i] <= s[i + 1]

RECURSIVE ValuesOf(_)
ValuesOf(t) ==
    IF t = Nil THEN {} ELSE {Data(t)} \cup ValuesOf(Left(t)) \cup ValuesOf(Right(t))

RECURSIVE BSTOrder(_)
BSTOrder(t) ==
    \/ t = Nil
    \/ /\ \A x \in ValuesOf(Left(t)) : x < Data(t)
       /\ \A x \in ValuesOf(Right(t)) : x >= Data(t)
       /\ BSTOrder(Left(t))
       /\ BSTOrder(Right(t))

Did(op) == hist # <<>> /\ Last.op = op

CeilLog2(m) == CHOOSE k \in 0..m : 2^k >= m /\ \A j \in 0..(k - 1) : 2^j < m

\* u is t with one new leaf holding x attached at an absent link
RECURSIVE LeafAdded(_, _, _)
LeafAdded(t, u, x) ==
    IF t = Nil THEN u = BSTNode(x)
    ELSE /\ u # Nil
         /\ Data(u) = Data(t)
         /\ \/ Right(u) = Right(t) /\ LeafAdded(Left(t), Left(u), x)
            \/ Left(u) = Left(t) /\ LeafAdded(Right(t), Right(u), x)

RECURSIVE NewLeafPath(_, _)
NewLeafPath(t, u) ==
    IF t = Nil THEN <<>>
    ELSE IF Left(t) # Left(u)
         THEN <<"L">> \o NewLeafPath(Left(t), Left(u))
         ELSE <<"R">> \o NewLeafPath(Right(t), Right(u))

(* -------------------------------- C1 ---------------------------------- *)
\* C1: after any sequence of add, remove and rebalance, every node has only
\* strictly smaller values in its left subtree and only greater or equal
\* values in its right subtree.
C1_BSTOrder == BSTOrder(root)

(* -------------------------------- C2 ---------------------------------- *)
\* C2: in every reachable state the size counter equals the number of nodes
\* reachable from root, which is the number of items inorder yields.
C2_SizeInvariant == size = NodeCount(root) /\ size = Len(inorder(root))

(* -------------------------------- C3 ---------------------------------- *)
\* C3: rebalance of a non-empty tree built by add/remove keeps the multiset
\* of items and the inorder sequence.
C3_RebalanceRoundTrip ==
    (Did("rebalance") /\ Last.pristine /\ Last.root # Nil)
        => /\ SameItems(root, Last.root)
           /\ inorder(root) = inorder(Last.root)

(* -------------------------------- C4 ---------------------------------- *)
\* C4: right after rebalance of a tree of n >= 1 items the height is at most
\* ceil(log2(n+1)) - 1, that is 2^height <= n; a chain of 7 items of height 6
\* becomes a tree of height 2.
C4_HeightBound ==
    (Did("rebalance") /\ Last.root # Nil)
        => LET n == NodeCount(Last.root)
           IN /\ height(root) <= CeilLog2(n + 1) - 1
              /\ 2^height(root) <= n
              /\ (n = 7 /\ height(Last.root) = 6) => height(root) = 2

C4_Witness ==
    /\ Did("rebalance")
    /\ Last.pristine
    /\ NodeCount(Last.root) = 7
    /\ height(Last.root) = 6
    /\ inorder(Last.root) = <<1, 2, 3, 4, 5, 6, 7>>
    /\ height(root) = 2

(* -------------------------------- C5 ---------------------------------- *)
\* C5: remove of an item that is not stored raises KeyError and leaves root,
\* all nodes and links, and size as they were.
C5_RemoveAbsent ==
    (Did("remove") /\ Count(Last.root, Last.item) = 0)
        => /\ Last.err = "KeyError"
           /\ root = Last.root
           /\ size = Last.size

C5_Witness ==
    /\ Did("remove")
    /\ Count(Last.root, Last.item) = 0
    /\ NodeCount(Last.root) >= 2
    /\ Last.err = "KeyError"

(* -------------------------------- C6 ---------------------------------- *)
\* C6: in a state reached by add/remove, remove of a stored item returns it,
\* decrements size by one, takes exactly one occurrence of the item out of
\* the stored multiset, and leaves root absent exactly when nothing remains.
C6_RemoveStored ==
    (Did("remove") /\ Count(Last.root, Last.item) > 0)
        => /\ Last.err = ""
           /\ Last.res = Last.item
           /\ size = Last.size - 1
           /\ \A x \in Universe :
                 Count(root, x) = Count(Last.root, x) - (IF x = Last.item THEN 1 ELSE 0)
           /\ (root = Nil) <=> (NodeCount(Last.root) = 1)

\* the root is removed, it has two children, and the item has a duplicate
C6_Witness ==
    /\ Did("remove")
    /\ Last.root # Nil
    /\ Data(Last.root) = Last.item
    /\ Left(Last.root) # Nil
    /\ Right(Last.root) # Nil
    /\ Right(Left(Last.root)) # Nil
    /\ Count(Last.root, Last.item) = 2
    /\ Last.res = Last.item

(* -------------------------------- C7 ---------------------------------- *)
\* C7: in a state reached by add/remove/clear, add raises size by one, never
\* rejects a duplicate, attaches exactly one new leaf and changes nothing
\* else, and goes right at every node on its way whose data equals the item.
C7_AddLeaf ==
    Did("add")
        => /\ Last.err = ""
           /\ size = Last.size + 1
           /\ LeafAdded(Last.root, root, Last.item)
           /\ LET q == NewLeafPath(Last.root, root)
              IN \A i \in 1..Len(q) :
                    Data(Sub(Last.root, SubSeq(q, 1, i - 1))) = Last.item
                        => q[i] = "R"

C7_Witness ==
    /\ Did("add")
    /\ ~Last.pristine
    /\ Count(Last.root, Last.item) >= 1
    /\ Len(NewLeafPath(Last.root, root)) >= 2
    /\ Data(Last.root) = Last.item

(* -------------------------------- C8 ---------------------------------- *)
AddThenRemove ==
    /\ Len(hist) >= 2
    /\ hist[Len(hist) - 1].op = "add"
    /\ Last.op = "remove"
    /\ hist[Len(hist) - 1].item = Last.item

\* C8 as stated: after add(x) followed by remove(x), contains(x) is false.
C8_AddRemoveNotContained == AddThenRemove => ~contains(root, Last.item)

\* C8 as amended: when x is not stored before the add, after add(x) followed
\* by remove(x), contains(x) is false.
C8_AddRemoveFresh ==
    (AddThenRemove /\ Count(hist[Len(hist) - 1].root, Last.item) = 0)
        => ~contains(root, Last.item)

C8_Witness ==
    /\ AddThenRemove
    /\ Count(hist[Len(hist) - 1].root, Last.item) = 0
    /\ NodeCount(hist[Len(hist) - 1].root) >= 2
    /\ hist[Len(hist) - 1].size >= 2
    /\ Last.res = Last.item
    /\ ~contains(root, Last.item)

(* -------------------------------- C9 ---------------------------------- *)
\* the last four calls, when hist holds that many
Last4 == Suffix(hist, 4)

AddAddRemoveRemove ==
    /\ Len(hist) >= 4
    /\ Last4[1].op = "add" /\ Last4[2].op = "add"
    /\ Last4[3].op = "remove" /\ Last4[4].op = "remove"
    /\ \A i \in 1..4 : Last4[i].item = Last4[1].item

\* C9: in a state reached by add/remove, add(x); add(x) raises size by two,
\* and two remove(x) calls after them both succeed, each returning x, and
\* leave size and the stored multiset as before the two adds.
C9_DuplicateRoundTrip ==
    AddAddRemoveRemove
        => /\ Last4[3].size = Last4[1].size + 2
           /\ Last4[3].err = "" /\ Last4[3].res = Last4[1].item
           /\ Last4[4].err = "" /\ Last4[4].res = Last4[1].item
           /\ size = Last4[1].size
           /\ SameItems(root, Last4[1].root)

C9_Witness ==
    /\ AddAddRemoveRemove
    /\ Count(Last4[1].root, Last4[1].item) = 1
    /\ NodeCount(Last4[1].root) = 2
    /\ Last4[4].res = Last4[1].item

(* -------------------------------- C10 --------------------------------- *)
\* C10: in every state reached by add and remove, inorder yields a
\* non-decreasing sequence holding each stored item once per occurrence.
C10_InorderSorted ==
    /\ NonDecreasing(inorder(root))
    /\ \A x \in Universe : Occurrences(inorder(root), x) = Count(root, x)

\* lift has moved a duplicate up: the root's left child equals the root
C10_Witness ==
    /\ Did("remove")
    /\ Last.res = Last.item
    /\ root # Nil
    /\ Left(root) # Nil
    /\ Data(Left(root)) = Data(root)
    /\ Right(root) # Nil

(* -------------------------------- C11 --------------------------------- *)
\* C11: in every state reached by add and remove, find(item) returns a stored
\* value equal to item exactly when item occurs in the stored multiset and
\* returns absence otherwise, and contains(item) is true in exactly those
\* cases.
C11_SearchComplete ==
    Did("find")
        => /\ Last.err = ""
           /\ (Count(root, Last.item) > 0) => (Last.res = Last.item)
           /\ (Count(root, Last.item) = 0) => (Last.res = None)
           /\ contains(root, Last.item) <=> (Count(root, Last.item) > 0)

\* a removal has lifted a duplicate: a node's left child equals it, and the
\* item looked up is the one below that pair
C11_Witness ==
    /\ Did("find")
    /\ root # Nil
    /\ Left(root) # Nil
    /\ Data(Left(root)) = Data(root)
    /\ Left(Left(root)) # Nil
    /\ Last.item = Data(Left(Left(root)))
    /\ Last.res = Last.item

(* -------------------------------- C12 --------------------------------- *)
\* C12: rebalance never fails: called on an empty tree it completes without
\* raising and leaves root absent and size 0.
C12_RebalanceNeverFails ==
    Did("rebalance")
        => /\ Last.err = ""
           /\ (Last.root = Nil /\ Last.size = 0) => (root = Nil /\ size = 0)

(* -------------------------------- C16 --------------------------------- *)
RebalanceThenAdd ==
    /\ Len(hist) >= 2
    /\ hist[Len(hist) - 1].op = "rebalance"
    /\ hist[Len(hist) - 1].root # Nil
    /\ Last.op = "add"

\* C16: after rebalance of a non-empty tree, add(item) keeps every item that
\* was stored: the stored multiset becomes the previous one plus item.
C16_NoLossAfterRebalance ==
    RebalanceThenAdd
        => \A x \in Universe :
              Count(root, x) = Count(hist[Len(hist) - 1].root, x)
                                 + (IF x = Last.item THEN 1 ELSE 0)

(* -------------------------------- C14 --------------------------------- *)
Above(t, item) == {x \in ValuesOf(t) : x > item}
Below(t, item) == {x \in ValuesOf(t) : x < item}

\* C14: in every tree reached by add/remove/replace/rebalance, in BST order
\* or not, successor(item) is the least stored value above item and
\* predecessor(item) the greatest stored value below item, and each is
\* absence when no stored value qualifies.
C14_Neighbours ==
    /\ Did("successor")
         => /\ Last.err = ""
            /\ IF Above(root, Last.item) = {} THEN Last.res = None
               ELSE /\ Last.res \in Above(root, Last.item)
                    /\ \A x \in Above(root, Last.item) : Last.res <= x
    /\ Did("predecessor")
         => /\ Last.err = ""
            /\ IF Below(root, Last.item) = {} THEN Last.res = None
               ELSE /\ Last.res \in Below(root, Last.item)
                    /\ \A x \in Below(root, Last.item) : Last.res >= x

\* the tree is out of order, and the first value above the item that inorder
\* yields is not the least one
C14_Witness ==
    /\ Did("successor")
    /\ ~BSTOrder(root)
    /\ Last.res # None
    /\ successor_first(inorder(root), Last.item, None) # Last.res
    /\ Count(root, Last.item) = 0

(* -------------------------------- C15 --------------------------------- *)
\* the steps from t to the first node equal to item on the search path
RECURSIVE MatchPath(_, _)
MatchPath(t, item) ==
    IF t = Nil \/ Data(t) = item THEN <<>>
    ELSE IF item < Data(t) THEN <<"L">> \o MatchPath(Left(t), item)
    ELSE <<"R">> \o MatchPath(Right(t), item)

RECURSIVE SameLinks(_, _)
SameLinks(t, u) ==
    IF t = Nil \/ u = Nil THEN t = u
    ELSE SameLinks(Left(t), Left(u)) /\ SameLinks(Right(t), Right(u))

\* the number of nodes of t whose data differs from the node of u in its place
RECURSIVE Changed(_, _)
Changed(t, u) ==
    IF t = Nil \/ u = Nil THEN 0
    ELSE (IF Data(t) # Data(u) THEN 1 ELSE 0)
         + Changed(Left(t), Left(u)) + Changed(Right(t), Right(u))

\* C15: replace(item, new_item) on a tree reached by add/remove: when item is
\* stored, the first match on the search path gets new_item and nothing else
\* changes (links, root, size), and the old value is returned; when item is
\* not stored, absence is returned, nothing is raised and nothing changes.
C15_ReplaceFrame ==
    (Did("replace") /\ Last.pristine)
        => /\ Last.err = ""
           /\ size = Last.size
           /\ SameLinks(root, Last.root)
           /\ IF Count(Last.root, Last.item) > 0
              THEN /\ Last.res = Last.item
                   /\ Changed(root, Last.root) <= 1
                   /\ Data(Sub(Last.root, MatchPath(Last.root, Last.item))) = Last.item
                   /\ Data(Sub(root, MatchPath(Last.root, Last.item))) = Last.new
              ELSE /\ Last.res = None
                   /\ root = Last.root

\* the item is stored twice, below the root, and gets another value
C15_Witness ==
    /\ Did("replace")
    /\ Last.pristine
    /\ Count(Last.root, Last.item) = 2
    /\ Last.new # Last.item
    /\ Len(MatchPath(Last.root, Last.item)) >= 1
    /\ Changed(root, Last.root) = 1
    /\ Count(root, Last.item) = 1

(* -------------------------------- C13 --------------------------------- *)
IsPrefix(p, q) == Len(p) <= Len(q) /\ SubSeq(q, 1, Len(p)) = p

Distinct(s) == \A i, j \in 1..Len(s) : i # j => s[i] # s[j]

Yielded == [i \in 1..Len(iter.out) |-> Data(Sub(root, iter.out[i]))]

\* what holds of the stack and of the nodes yielded at every step
PreorderSoFar ==
    /\ Distinct(iter.stack)
    /\ Distinct(iter.out)
    /\ \A i \in 1..Len(iter.stack) : \A j \in 1..Len(iter.out) :
          iter.stack[i] # iter.out[j]
    /\ \A i, j \in 1..Len(iter.out) :
          /\ (iter.out[i] # iter.out[j] /\ IsPrefix(iter.out[i], iter.out[j])) => i < j
          /\ (\E k \in 0..Len(iter.out[i]) :
                 /\ IsPrefix(Append(SubSeq(iter.out[i], 1, k), "L"), iter.out[i])
                 /\ IsPrefix(Append(SubSeq(iter.out[i], 1, k), "R"), iter.out[j]))
             => i < j

\* what holds when the traversal is exhausted
PreorderAtEnd ==
    iter.pc = "done"
        => /\ iter.stack = <<>>
           /\ Len(iter.out) = NodeCount(root)
           /\ \A x \in Universe : Occurrences(Yielded, x) = Count(root, x)

\* C13: in every state reached by add/remove, the default iteration
\* terminates, yields each stored item once per occurrence, a node's item
\* before the items of its subtrees and the left subtree before the right
\* one; the stack never holds a node twice and is empty at the end.
C13_PreorderIteration ==
    /\ [](PreorderSoFar /\ PreorderAtEnd)
    /\ InFlight ~> (iter.pc = "done")

\* a traversal of four nodes, the root with two children, is exhausted
C13_Witness ==
    /\ iter.pc = "done"
    /\ Len(iter.out) = 4
    /\ Left(root) # Nil
    /\ Right(root) # Nil
    /\ Yielded[1] = Data(root)
    /\ Yielded[2] = Data(Left(root))

=============================================================================
